---- MODULE Spec2Model ----
(***************************************************************************)
(* A model of oracle/sentiment_pipeline.py (LefCoin sentiment oracle):     *)
(* the on-chain submission sequencer (OracleSubmitter.submit_scores), the  *)
(* GDELT rate gate (_rate_limited_gdelt), the text scorer                  *)
(* (SentimentAnalyzer.analyze), the blender (SubindexAggregator._blend),   *)
(* the five scoring operations (score_peace .. score_wellness) with their  *)
(* adapter calls through _safe_fetch, and the driver (main, run_daemon,    *)
(* run_once).                                                              *)
(*                                                                         *)
(* Numbers: a sentiment value in [0.0, 1.0] is held in thousandths         *)
(* (0.25 is 250); products and quotients are computed exactly on           *)
(* fractions <<num, den>> and truncated where the code calls int().        *)
(***************************************************************************)
EXTENDS Integers, Sequences, FiniteSets, TLC

VARIABLES
    \* ---- process-wide settings (main, Config) ----
    dry_run,          \* "--dry-run" in sys.argv
    config,           \* Config: oracle address, reporter key, use_local_llm
    keys,             \* Config: the api-key fields that are not empty
    \* ---- OracleSubmitter.submit_scores ----
    pc,               \* position inside submit_scores
    cycle,            \* number of submit_scores calls started so far (when called alone)
    scores,           \* the score map given to submit_scores
    todo,             \* the rest of sorted(scores.keys()) still to iterate
    cur,              \* subindex_id of the loop body being executed
    nonce,            \* the local variable nonce (kept to show what a stale value would be)
    chain_nonce,      \* the account's transaction count on the chain
    calls,            \* chain-client calls made by this submit_scores call, in order
    receipt,          \* status of the receipt the last confirmation wait returned (-1: none)
    log,              \* log lines written by this submit_scores call, in order
    \* ---- _rate_limited_gdelt ----
    now,              \* time.time()
    gdelt_last_call,  \* the module global _gdelt_last_call
    gate,             \* per execution path: position inside _rate_limited_gdelt
    releases,         \* the times at which the gate wrote the marker, in order
    \* ---- SubindexAggregator._blend ----
    results,          \* the list of SourceResults given to _blend
    llm_reply,        \* what the remote scorer answers during this _blend call
    blend,            \* what _blend returned, with the number of scorer calls
    prev,             \* the previous list, reply and score, and how the list was changed
    \* ---- SentimentAnalyzer.analyze ----
    text_list,        \* the list of texts given to analyze
    scored,           \* what analyze and _analyze_keyword returned, now and before
    \* ---- SubindexAggregator.score_peace .. score_wellness ----
    category,         \* the subindex whose scoring operation is executing
    score_pc,         \* position inside the scoring operation
    invoked,          \* the adapter calls made by it, in order, with what each did
    \* ---- main, SentimentPipeline.run_daemon, run_once ----
    mode,             \* "daemon" if "--daemon" in sys.argv, else "once"
    drv,              \* position of the driver
    run_scores,       \* the local variable scores of run_once
    off_chain_composite,  \* the local variable of that name
    submit_calls,     \* calls of submit_scores made by this run_once
    report,           \* what run_once returned
    last_cycle        \* how the previous cycle of the daemon ended

subVars   == <<pc, cycle, scores, todo, cur, nonce, chain_nonce, calls, receipt, log>>
gateVars  == <<now, gdelt_last_call, gate, releases>>
blendVars == <<results, llm_reply, blend, prev>>
scorerVars == <<text_list, scored>>
scoreVars == <<category, score_pc, invoked>>
pipeVars  == <<mode, drv, run_scores, off_chain_composite, submit_calls, report,
               last_cycle>>
cfgVars   == <<dry_run, config, keys>>
vars      == <<dry_run, config, keys, pc, cycle, scores, todo, cur, nonce, chain_nonce,
               calls, receipt, log, now, gdelt_last_call, gate, releases,
               results, llm_reply, blend, prev, text_list, scored,
               category, score_pc, invoked,
               mode, drv, run_scores, off_chain_composite, submit_calls, report,
               last_cycle>>

None == "None"

\* What a step of one component leaves alone.
OnlySubmit == UNCHANGED <<cfgVars, gateVars, blendVars, scorerVars, scoreVars, pipeVars>>
OnlyGate   == UNCHANGED <<cfgVars, subVars, blendVars, scorerVars, scoreVars, pipeVars>>
OnlyBlend  == UNCHANGED <<cfgVars, subVars, gateVars, scorerVars, scoreVars, pipeVars>>
OnlyScorer == UNCHANGED <<cfgVars, subVars, gateVars, results, blend, prev, scoreVars,
                          pipeVars>>
OnlyScore  == UNCHANGED <<cfgVars, subVars, gateVars, scorerVars, llm_reply, prev,
                          pipeVars>>
OnlyDriver == UNCHANGED <<cfgVars, gateVars, blendVars, scorerVars, scoreVars>>

(***************************************************************************)
(* Bounds of the model.                                                    *)
(***************************************************************************)
MaxCycles == 2
MaxTime == 24
MaxGateCalls == 3
MaxResults == 2
MaxTexts == 3
MaxFaults == 2
MaxNonce == 24

(***************************************************************************)
(* Inputs of submit_scores.                                                *)
(***************************************************************************)
\* Key sets of the score maps: run_once always passes ids 0..4; the method
\* itself takes any map, so maps with ids >= 5 and with ids missing are drawn too.
KeySets == { 0..4, 0..5, {1, 3, 6} }
\* Score of id 0 in a drawn map; id i gets ScoreBase + 100 * i, so that the ids
\* of one map carry different scores and some fall outside [0, 1000].
ScoreBases == { -100, 400, 700 }
ScoreMaps == { [i \in K |-> b + 100 * i] : K \in KeySets, b \in ScoreBases }
\* Transaction count of the reporter account when the process starts.
InitNonces == { 0, 7 }

\* len(names): ids from this value on are skipped by submit_scores.
NumSubindices == 5

Min(a, b) == IF a < b THEN a ELSE b
Max(a, b) == IF a > b THEN a ELSE b

\* score = max(0, min(1000, scores[subindex_id]))
ClampScore(s) == Max(0, Min(1000, s))

\* A mutant of SortedKeys: the keys in descending order.
RECURSIVE KeysDescending(_)
KeysDescending(S) ==
    IF S = {} THEN <<>>
    ELSE LET m == CHOOSE x \in S : \A y \in S : x >= y
         IN <<m>> \o KeysDescending(S \ {m})

\* sorted(scores.keys()): the keys in ascending order.
RECURSIVE SortedKeys(_)
SortedKeys(S) ==
    IF S = {} THEN <<>>
    ELSE LET m == CHOOSE x \in S : \A y \in S : x <= y
         IN <<m>> \o SortedKeys(S \ {m})

\* One chain-client call of the batch.
Call(op, id, n, ok) == [op |-> op, id |-> id, nonce |-> n, ok |-> ok]
\* One log line of submit_scores.
Line(kind, id, s) == [kind |-> kind, id |-> id, score |-> s]

RECURSIVE LinesFor(_, _, _)
LinesFor(kind, sc, ks) ==
    IF ks = <<>> THEN <<>>
    ELSE (IF Head(ks) < NumSubindices
             THEN <<Line(kind, Head(ks), sc[Head(ks)])>> ELSE <<>>)
         \o LinesFor(kind, sc, Tail(ks))

\* _log_scores(scores, names): "Scores (not submitted):" and one line for every
\* id < 5 of the map, in ascending order.
LogScores(sc) == LinesFor("not_submitted", sc, SortedKeys(DOMAIN sc))
\* The dry-run branch: "DRY RUN - scores that would be submitted:" and the lines.
DryRunLines(sc) == LinesFor("dry_run", sc, SortedKeys(DOMAIN sc))

(***************************************************************************)
(* OracleSubmitter.submit_scores, one action per statement that can fault. *)
(***************************************************************************)
InitSubmit ==
    /\ pc = "idle"
    /\ cycle = 0
    /\ scores = [i \in {} |-> 0]
    /\ todo = <<>>
    /\ cur = -1
    /\ nonce = -1
    /\ chain_nonce \in InitNonces
    /\ calls = <<>>
    /\ receipt = -1
    /\ log = <<>>

\* The call of submit_scores (by run_once, once per cycle) with dry_run set:
\* the scores are logged and the method returns.
SubmitDryRun ==
    /\ pc \in {"idle", "returned"}
    /\ cycle < MaxCycles
    /\ dry_run
    /\ \E sc \in ScoreMaps :
          /\ scores' = sc
          /\ log' = DryRunLines(sc)
    /\ cycle' = cycle + 1
    /\ calls' = <<>>
    /\ pc' = "returned"
    /\ receipt' = -1
    /\ UNCHANGED <<todo, cur, nonce, chain_nonce>>
    /\ OnlySubmit

\* A mutant of SubmitLive: the dry_run flag is not looked at.
SubmitLiveAlways ==
    /\ pc \in {"idle", "returned"}
    /\ cycle < MaxCycles
    /\ \E sc \in ScoreMaps : scores' = sc
    /\ cycle' = cycle + 1
    /\ calls' = <<>>
    /\ log' = <<>>
    /\ pc' = "import"
    /\ receipt' = -1
    /\ UNCHANGED <<todo, cur, nonce, chain_nonce>>
    /\ OnlySubmit

\* The call of submit_scores without dry_run: the try block is entered.
SubmitLive ==
    /\ pc \in {"idle", "returned"}
    /\ cycle < MaxCycles
    /\ ~dry_run
    /\ \E sc \in ScoreMaps : scores' = sc
    /\ cycle' = cycle + 1
    /\ calls' = <<>>
    /\ log' = <<>>
    /\ pc' = "import"
    /\ receipt' = -1
    /\ UNCHANGED <<todo, cur, nonce, chain_nonce>>
    /\ OnlySubmit

\* from web3 import Web3
ImportOk ==
    /\ pc = "import"
    /\ calls' = Append(calls, Call("import", -1, -1, TRUE))
    /\ pc' = "setup"
    /\ UNCHANGED <<cycle, scores, todo, cur, nonce, chain_nonce, log, receipt>>
    /\ OnlySubmit

\* except ImportError: log.error, _log_scores
ImportFail ==
    /\ pc = "import"
    /\ calls' = Append(calls, Call("import", -1, -1, FALSE))
    /\ log' = log \o LogScores(scores)
    /\ pc' = "returned"
    /\ UNCHANGED <<cycle, scores, todo, cur, nonce, chain_nonce, receipt>>
    /\ OnlySubmit

\* Web3(HTTPProvider(rpc_url)), account.from_key(key), contract(to_checksum_address(addr)):
\* web3 raises on an empty key and on an empty address.
SetupOk ==
    /\ pc = "setup"
    /\ config.oracle_address /\ config.reporter_private_key
    /\ calls' = Append(calls, Call("setup", -1, -1, TRUE))
    /\ pc' = "get_nonce"
    /\ UNCHANGED <<cycle, scores, todo, cur, nonce, chain_nonce, log, receipt>>
    /\ OnlySubmit

\* A mutant of GetNonceOk: a value left by the previous cycle is used again.
GetNonceStale ==
    /\ pc = "get_nonce"
    /\ nonce' = (IF nonce = -1 THEN chain_nonce ELSE nonce)
    /\ calls' = Append(calls, Call("get_nonce", -1, nonce', TRUE))
    /\ todo' = SortedKeys(DOMAIN scores)
    /\ pc' = "loop"
    /\ UNCHANGED <<cycle, scores, cur, chain_nonce, log, receipt>>
    /\ OnlySubmit

\* nonce = w3.eth.get_transaction_count(account.address); the for loop starts.
GetNonceOk ==
    /\ pc = "get_nonce"
    /\ nonce' = chain_nonce
    /\ calls' = Append(calls, Call("get_nonce", -1, chain_nonce, TRUE))
    /\ todo' = SortedKeys(DOMAIN scores)
    /\ pc' = "loop"
    /\ UNCHANGED <<cycle, scores, cur, chain_nonce, log, receipt>>
    /\ OnlySubmit

\* A mutant of LoopSkip: an id of 5 or more is updated like the others.
LoopSkipBuilds ==
    /\ pc = "loop"
    /\ todo # <<>>
    /\ Head(todo) >= NumSubindices
    /\ cur' = Head(todo)
    /\ todo' = Tail(todo)
    /\ log' = Append(log, Line("submitting", Head(todo), ClampScore(scores[Head(todo)])))
    /\ pc' = "build"
    /\ UNCHANGED <<cycle, scores, nonce, chain_nonce, calls, receipt>>
    /\ OnlySubmit

\* for subindex_id in sorted(...): if subindex_id >= 5: continue
LoopSkip ==
    /\ pc = "loop"
    /\ todo # <<>>
    /\ Head(todo) >= NumSubindices
    /\ cur' = Head(todo)
    /\ todo' = Tail(todo)
    /\ UNCHANGED <<pc, cycle, scores, nonce, chain_nonce, calls, log, receipt>>
    /\ OnlySubmit

\* score = max(0, min(1000, ...)); log.info("Submitting ...")
LoopSubmit ==
    /\ pc = "loop"
    /\ todo # <<>>
    /\ Head(todo) < NumSubindices
    /\ cur' = Head(todo)
    /\ todo' = Tail(todo)
    /\ log' = Append(log, Line("submitting", Head(todo), ClampScore(scores[Head(todo)])))
    /\ pc' = "build"
    /\ UNCHANGED <<cycle, scores, nonce, chain_nonce, calls, receipt>>
    /\ OnlySubmit

\* The loop is exhausted: the try block ends and the method returns.
LoopDone ==
    /\ pc = "loop"
    /\ todo = <<>>
    /\ pc' = "returned"
    /\ UNCHANGED <<cycle, scores, todo, cur, nonce, chain_nonce, calls, log, receipt>>
    /\ OnlySubmit

\* tx = oracle.functions.updateSubIndex(id, score).build_transaction({... "nonce": nonce ...})
BuildOk ==
    /\ pc = "build"
    /\ calls' = Append(calls, Call("build", cur, nonce, TRUE))
    /\ pc' = "sign"
    /\ UNCHANGED <<cycle, scores, todo, cur, nonce, chain_nonce, log, receipt>>
    /\ OnlySubmit

\* signed = account.sign_transaction(tx)
SignOk ==
    /\ pc = "sign"
    /\ calls' = Append(calls, Call("sign", cur, nonce, TRUE))
    /\ pc' = "send"
    /\ UNCHANGED <<cycle, scores, todo, cur, nonce, chain_nonce, log, receipt>>
    /\ OnlySubmit

\* tx_hash = w3.eth.send_raw_transaction(signed.raw_transaction)
SendOk ==
    /\ pc = "send"
    /\ calls' = Append(calls, Call("send", cur, nonce, TRUE))
    /\ pc' = "wait"
    /\ UNCHANGED <<cycle, scores, todo, cur, nonce, chain_nonce, log, receipt>>
    /\ OnlySubmit

\* A mutant of WaitOk: the local sequence number is not advanced.
WaitOkNoIncrement ==
    /\ pc = "wait"
    /\ chain_nonce < MaxNonce
    /\ calls' = Append(calls, Call("wait", cur, nonce, TRUE))
    /\ chain_nonce' = chain_nonce + 1
    /\ log' = Append(log, Line("updated", cur, ClampScore(scores[cur])))
    /\ pc' = "loop"
    /\ UNCHANGED <<cycle, scores, todo, cur, nonce>>
    /\ \E status \in {1, 0} : receipt' = status
    /\ OnlySubmit

\* receipt = w3.eth.wait_for_transaction_receipt(tx_hash, timeout=60) returns:
\* the transaction is mined (the account's count grows) and the receipt says
\* whether it succeeded (status 1) or was reverted (status 0): the chain
\* client returns either receipt, and the code does not read it;
\* log "updated"; nonce += 1
\* (the model stops mining at MaxNonce: from there on every wait fails)
WaitOk ==
    /\ pc = "wait"
    /\ chain_nonce < MaxNonce
    /\ calls' = Append(calls, Call("wait", cur, nonce, TRUE))
    /\ chain_nonce' = chain_nonce + 1
    /\ log' = Append(log, Line("updated", cur, ClampScore(scores[cur])))
    /\ nonce' = nonce + 1
    /\ pc' = "loop"
    /\ UNCHANGED <<cycle, scores, todo, cur>>
    /\ \E status \in {1, 0} : receipt' = status
    /\ OnlySubmit

\* wait_for_transaction_receipt raises (TimeExhausted after 60 s, or an RPC
\* fault): the sent transaction may still be mined later or never.
\* except Exception: log.error, _log_scores
WaitFail ==
    /\ pc = "wait"
    /\ calls' = Append(calls, Call("wait", cur, nonce, FALSE))
    /\ \E mined \in BOOLEAN :
          /\ mined => chain_nonce < MaxNonce
          /\ chain_nonce' = IF mined THEN chain_nonce + 1 ELSE chain_nonce
    /\ log' = log \o LogScores(scores)
    /\ pc' = "returned"
    /\ UNCHANGED <<cycle, scores, todo, cur, nonce, receipt>>
    /\ OnlySubmit

\* A mutant of Raise: the fault of one update is caught inside the loop, which
\* goes on with the next category.
RaiseAndGoOn ==
    /\ pc \in {"setup", "get_nonce", "build", "sign", "send"}
    /\ calls' = Append(calls, Call(pc, IF pc \in {"setup", "get_nonce"} THEN -1 ELSE cur,
                                   IF pc \in {"setup", "get_nonce"} THEN -1 ELSE nonce, FALSE))
    /\ log' = log \o LogScores(scores)
    /\ pc' = (IF pc \in {"setup", "get_nonce"} THEN "returned" ELSE "loop")
    /\ UNCHANGED <<cycle, scores, todo, cur, nonce, chain_nonce, receipt>>
    /\ OnlySubmit

\* A mutant of Raise: the fault leaves submit_scores and run_once.
RaiseUncaught ==
    /\ pc \in {"setup", "get_nonce", "build", "sign", "send"}
    /\ calls' = Append(calls, Call(pc, IF pc \in {"setup", "get_nonce"} THEN -1 ELSE cur,
                                   IF pc \in {"setup", "get_nonce"} THEN -1 ELSE nonce, FALSE))
    /\ pc' = "raised"
    /\ drv' = "failed"
    /\ UNCHANGED <<cycle, scores, todo, cur, nonce, chain_nonce, log, receipt>>
    /\ UNCHANGED <<mode, run_scores, off_chain_composite, submit_calls, report, last_cycle>>
    /\ UNCHANGED <<cfgVars, gateVars, blendVars, scorerVars, scoreVars>>

\* Any other statement of the try block raises: except Exception: log.error,
\* traceback, _log_scores; the method returns.
Raise ==
    /\ pc \in {"setup", "get_nonce", "build", "sign", "send"}
    /\ calls' = Append(calls, Call(pc, IF pc \in {"setup", "get_nonce"} THEN -1 ELSE cur,
                                   IF pc \in {"setup", "get_nonce"} THEN -1 ELSE nonce, FALSE))
    /\ log' = log \o LogScores(scores)
    /\ pc' = "returned"
    /\ UNCHANGED <<cycle, scores, todo, cur, nonce, chain_nonce, receipt>>
    /\ OnlySubmit

Next ==
    \/ SubmitDryRun \/ SubmitLive
    \/ ImportOk \/ ImportFail
    \/ SetupOk \/ GetNonceOk
    \/ LoopSkip \/ LoopSubmit \/ LoopDone
    \/ BuildOk \/ SignOk \/ SendOk
    \/ WaitOk \/ WaitFail
    \/ Raise


(***************************************************************************)
(* _rate_limited_gdelt: the GDELT rate gate.  Time is counted in seconds.  *)
(***************************************************************************)
\* _GDELT_MIN_INTERVAL = 6.0
GDELT_MIN_INTERVAL == 6
\* time.time() when the process starts: the epoch clock is far beyond the
\* initial marker 0.0, so the first call never waits.
StartTimes == { 6, 9 }
\* The execution paths that call the gate: the program calls it from one path
\* (the five score_* methods, one after the other).
PathsSequential == { 1 }
\* Two paths calling it at once (adapters invoked concurrently).
PathsConcurrent == { 1, 2 }

\* A mutant of WaitFor: the wait is one second short.
WaitForTooShort(elapsed) == GDELT_MIN_INTERVAL - 1 - elapsed

\* wait = _GDELT_MIN_INTERVAL - elapsed
WaitFor(elapsed) == GDELT_MIN_INTERVAL - elapsed

GateIdle == [pc |-> "idle", wake |-> 0, result |-> "none"]

InitGate(paths) ==
    /\ now \in StartTimes
    /\ gdelt_last_call = 0
    /\ gate = [t \in paths |-> GateIdle]
    /\ releases = <<>>

\* The clock advances, whatever the paths are doing.  time.time() is taken to
\* run with real time: it is not set back or forward while the process runs.
Tick ==
    /\ now < MaxTime
    /\ now' = now + 1
    /\ UNCHANGED <<gdelt_last_call, gate, releases>>
    /\ OnlyGate

\* elapsed = time.time() - _gdelt_last_call; if elapsed < MIN: time.sleep(wait) starts
GateEnter(t) ==
    /\ gate[t].pc = "idle"
    /\ Len(releases) < MaxGateCalls
    /\ LET elapsed == now - gdelt_last_call
       IN gate' = [gate EXCEPT ![t] =
                     IF elapsed < GDELT_MIN_INTERVAL
                     THEN [gate[t] EXCEPT !.pc = "sleep", !.wake = now + WaitFor(elapsed)]
                     ELSE [gate[t] EXCEPT !.pc = "mark"]]
    /\ UNCHANGED <<now, gdelt_last_call, releases>>
    /\ OnlyGate

\* time.sleep(wait) returns: not before the requested time has passed.
GateWake(t) ==
    /\ gate[t].pc = "sleep"
    /\ now >= gate[t].wake
    /\ gate' = [gate EXCEPT ![t].pc = "mark", ![t].wake = 0]
    /\ UNCHANGED <<now, gdelt_last_call, releases>>
    /\ OnlyGate

\* _gdelt_last_call = time.time(); then fetch_gdelt is called.
GateMark(t) ==
    /\ gate[t].pc = "mark"
    /\ gdelt_last_call' = now
    /\ releases' = Append(releases, now)
    /\ gate' = [gate EXCEPT ![t].pc = "fetch"]
    /\ UNCHANGED now
    /\ OnlyGate

\* fetch_gdelt returns a SourceResult.
FetchOk(t) ==
    /\ gate[t].pc = "fetch"
    /\ gate' = [gate EXCEPT ![t] = [pc |-> "idle", wake |-> 0, result |-> "ok"]]
    /\ UNCHANGED <<now, gdelt_last_call, releases>>
    /\ OnlyGate

\* fetch_gdelt raises; _safe_fetch turns the fault into an error result.
FetchRaise(t) ==
    /\ gate[t].pc = "fetch"
    /\ gate' = [gate EXCEPT ![t] = [pc |-> "idle", wake |-> 0, result |-> "error"]]
    /\ UNCHANGED <<now, gdelt_last_call, releases>>
    /\ OnlyGate

NextGate ==
    \/ Tick
    \/ \E t \in DOMAIN gate : GateEnter(t)
    \/ \E t \in DOMAIN gate : GateWake(t)
    \/ \E t \in DOMAIN gate : GateMark(t)
    \/ \E t \in DOMAIN gate : FetchOk(t)
    \/ \E t \in DOMAIN gate : FetchRaise(t)


(***************************************************************************)
(* SentimentAnalyzer: the text scorer.  A text is the sequence of its      *)
(* whitespace-separated tokens (text.split()).                             *)
(***************************************************************************)
\* word.lower().strip(".,!?;:'\"()-[]") on the tokens texts are made of.
LowerStrip(tok) ==
    CASE tok = "Peace." -> "peace"
      [] tok = "WAR!"   -> "war"
      [] OTHER          -> tok
\* The words of POSITIVE and NEGATIVE that the tokens can yield.
POSITIVE == { "peace", "treaty" }
NEGATIVE == { "war" }

RECURSIVE CountWords(_, _)
CountWords(text, lexicon) ==
    IF text = <<>> THEN 0
    ELSE (IF LowerStrip(Head(text)) \in lexicon THEN 1 ELSE 0)
         + CountWords(Tail(text), lexicon)

\* A mutant of CountAll: the words of the first text only are counted.
CountFirstText(texts, lexicon) ==
    IF texts = <<>> THEN 0 ELSE CountWords(Head(texts), lexicon)

RECURSIVE CountAll(_, _)
CountAll(texts, lexicon) ==
    IF texts = <<>> THEN 0
    ELSE CountWords(Head(texts), lexicon) + CountAll(Tail(texts), lexicon)

\* A value in [0.0, 1.0] as the fraction <<num, den>>; NoScore is Python's None.
Half == <<1, 2>>
NoScore == <<>>

\* _analyze_keyword: pos / (pos + neg), or 0.5 when no word matches.
\* (a word of POSITIVE is never counted as negative: the sets are disjoint)
AnalyzeKeyword(texts) ==
    LET pos == CountAll(texts, POSITIVE)
        neg == CountAll(texts, NEGATIVE \ POSITIVE)
    IN IF pos + neg = 0 THEN Half ELSE <<pos, pos + neg>>

\* What the remote scorer does during one call: a fault (request error,
\* response without choices[0].message.content) or the content it answers,
\* a sequence of characters.
LLMFault == [fault |-> TRUE, content |-> <<>>]
\* The answers 0, 40 and 250.
LLMReplies ==
    { LLMFault } \cup { [fault |-> FALSE, content |-> c] :
                          c \in { <<"0">>, <<"4", "0">>, <<"2", "5", "0">> } }
\* More answers: 40.5, -5, "n/a", "s:40", "7.5.", "." and the empty content.
ScorerReplies ==
    LLMReplies \cup { [fault |-> FALSE, content |-> c] :
                        c \in { <<"4", "0", ".", "5">>, <<"-", "5">>, <<"n", "/", "a">>,
                                <<"s", ":", "4", "0">>, <<"7", ".", "5", ".">>,
                                <<".">>, <<>> } }

DigitChars == <<"0", "1", "2", "3", "4", "5", "6", "7", "8", "9">>
IsDigit(c) == \E i \in 1..10 : DigitChars[i] = c

\* "".join(c for c in result if c.isdigit() or c == ".")
RECURSIVE KeepDigitsAndDots(_)
KeepDigitsAndDots(q) ==
    IF q = <<>> THEN <<>>
    ELSE (IF IsDigit(Head(q)) \/ Head(q) = "." THEN <<Head(q)>> ELSE <<>>)
         \o KeepDigitsAndDots(Tail(q))

\* float(q) of a string of digits and dots: it raises ValueError unless q
\* has a digit and at most one dot; the value is the fraction <<num, den>>.
FloatRaises(q) ==
    \/ ~\E i \in 1..Len(q) : IsDigit(q[i])
    \/ Cardinality({ i \in 1..Len(q) : q[i] = "." }) > 1
RECURSIVE DigitsValue(_, _)
DigitsValue(q, acc) ==
    IF q = <<>> THEN acc
    ELSE DigitsValue(Tail(q), IF Head(q) = "." THEN acc ELSE 10 * acc + (CHOOSE i \in 1..10 : DigitChars[i] = Head(q)) - 1)
RECURSIVE PowerOfTen(_)
PowerOfTen(k) == IF k = 0 THEN 1 ELSE 10 * PowerOfTen(k - 1)
FloatOf(q) ==
    LET dot == { i \in 1..Len(q) : q[i] = "." }
        decimals == IF dot = {} THEN 0 ELSE Len(q) - (CHOOSE i \in dot : TRUE)
    IN <<DigitsValue(q, 0), PowerOfTen(decimals)>>

\* _analyze_llm: None on any fault, else max(0.0, min(1.0, num / 100.0)).
AnalyzeLLM(reply) ==
    LET kept == KeepDigitsAndDots(reply.content)
        num == FloatOf(kept)
    IN IF reply.fault \/ FloatRaises(kept) THEN NoScore
       ELSE IF num[1] >= 100 * num[2] THEN <<100, 100>>
       ELSE <<Max(0, num[1]), 100 * num[2]>>

\* analyze(texts, context)
Analyze(texts, use_llm, reply) ==
    IF texts = <<>> THEN Half
    ELSE IF use_llm /\ AnalyzeLLM(reply) # NoScore THEN AnalyzeLLM(reply)
    ELSE AnalyzeKeyword(texts)

\* The texts given to the scorer, and the lists of at most n of them.
TextPeace == <<"Peace.", "treaty">>
TextWar   == <<"WAR!", "the">>
TextMixed == <<"the", "Peace.", "WAR!", "WAR!">>
RECURSIVE TextListsUpTo(_)
TextListsUpTo(n) ==
    IF n = 0 THEN { <<>> }
    ELSE TextListsUpTo(n - 1)
         \cup { Append(l, t) : l \in { x \in TextListsUpTo(n - 1) : Len(x) = n - 1 },
                               t \in { TextPeace, TextWar, TextMixed, <<"the">> } }

NotScored == [op |-> "none", keyword |-> NoScore, value |-> NoScore, before |-> NoScore]
\* The results of _analyze_keyword(ts) and analyze(ts, context); before is the
\* result _analyze_keyword gave for the list of the previous call.
Scored(op, ts, reply) ==
    [op |-> op, keyword |-> AnalyzeKeyword(ts),
     value |-> Analyze(ts, config.use_local_llm, reply), before |-> scored.keyword]

\* The answers the remote scorer can give to analyze in this configuration.
ScorerRepliesFor(cfg) == IF cfg.use_local_llm THEN ScorerReplies ELSE { LLMFault }

\* The scorer is applied to the list.
AnalyzeCall ==
    /\ scored.op = "none"
    /\ scored' = Scored("first", text_list, llm_reply)
    /\ UNCHANGED <<text_list, llm_reply>>
    /\ OnlyScorer

\* The scorer is applied to the same list again.
AnalyzeAgain ==
    /\ scored.op # "none"
    /\ llm_reply' \in ScorerRepliesFor(config)
    /\ scored' = Scored("again", text_list, llm_reply')
    /\ UNCHANGED text_list
    /\ OnlyScorer

\* The scorer is applied to the list with two of its texts exchanged.
AnalyzeSwapped ==
    \E i, j \in 1..Len(text_list) :
        /\ scored.op # "none"
        /\ i < j
        /\ text_list[i] # text_list[j]
        /\ text_list' = [text_list EXCEPT ![i] = text_list[j], ![j] = text_list[i]]
        /\ llm_reply' \in ScorerRepliesFor(config)
        /\ scored' = Scored("swap", text_list', llm_reply')
        /\ OnlyScorer

NextScorer == AnalyzeCall \/ AnalyzeAgain \/ AnalyzeSwapped

(***************************************************************************)
(* SourceResult and SubindexAggregator._blend.                             *)
(***************************************************************************)
\* SourceResult(name, texts, scores, error): error is None, or the message,
\* which str(e) and data.get("message", ...) can leave empty.
\* The first three sets are results without error, the last two carry one.
\* The adapters clamp their scores into [0.0, 1.0], except fetch_world_bank,
\* which returns the raw value for the caller to normalise: 1500 is such a
\* value given to _blend as it is.
SourceResults ==
    [name : {"gdelt"}, error : {None}, texts : {<<>>, <<TextPeace>>, <<TextWar>>},
     scores : {<<>>, <<250>>}]
    \cup [name : {"aqicn"}, error : {None}, texts : {<<>>},
          scores : {<<1000>>, <<500, 500>>}]
    \cup [name : {"world_bank"}, error : {None}, texts : {<<>>}, scores : {<<1500>>}]
    \cup [name : {"gdelt"}, error : {"", "HTTP 500"}, texts : {<<>>, <<TextWar>>},
          scores : {<<>>}]
    \cup [name : {"aqicn"}, error : {"HTTP 500"}, texts : {<<>>}, scores : {<<>>, <<250>>}]

\* The lists of at most n results.
RECURSIVE ListsUpTo(_)
ListsUpTo(n) ==
    IF n = 0 THEN { <<>> }
    ELSE ListsUpTo(n - 1)
         \cup { Append(l, r) : l \in { x \in ListsUpTo(n - 1) : Len(x) = n - 1 },
                               r \in SourceResults }

\* "if r.error:" - the truth value of the field: None and "" are false.
Truthy(error) == error \notin { None, "" }

\* The result counts as an error result: the test the code applies to the
\* field, which a message that is the empty string does not pass.
ErrorSet(r) == Truthy(r.error)

\* A mutant of AllTexts: the texts of error results are collected too.
RECURSIVE AllTextsOfAll(_)
AllTextsOfAll(rs) ==
    IF rs = <<>> THEN <<>> ELSE Head(rs).texts \o AllTextsOfAll(Tail(rs))

\* all_texts: the texts of the results that pass "if r.error: continue".
RECURSIVE AllTexts(_)
AllTexts(rs) ==
    IF rs = <<>> THEN <<>>
    ELSE (IF Truthy(Head(rs).error) THEN <<>> ELSE Head(rs).texts) \o AllTexts(Tail(rs))

\* all_scores, likewise.
RECURSIVE AllScores(_)
AllScores(rs) ==
    IF rs = <<>> THEN <<>>
    ELSE (IF Truthy(Head(rs).error) THEN <<>> ELSE Head(rs).scores) \o AllScores(Tail(rs))

RECURSIVE SumSeq(_)
SumSeq(q) == IF q = <<>> THEN 0 ELSE Head(q) + SumSeq(Tail(q))

\* One entry of source_meta; a key the dict does not hold is None or -1.
MetaEntry(status, error, ntexts, nscores) ==
    [status |-> status, error |-> error, texts |-> ntexts, scores |-> nscores]

\* The three assignments to source_meta[r.name] of one loop iteration.
MetaAfter(meta, r) ==
    IF Truthy(r.error)
    THEN [n \in DOMAIN meta \cup {r.name} |->
            IF n = r.name THEN MetaEntry("error", r.error, -1, -1) ELSE meta[n]]
    ELSE LET m1 == IF r.texts # <<>>
                   THEN [n \in DOMAIN meta \cup {r.name} |->
                           IF n = r.name THEN MetaEntry("ok", None, Len(r.texts), -1)
                           ELSE meta[n]]
                   ELSE meta
         IN IF r.scores # <<>>
            THEN [n \in DOMAIN m1 \cup {r.name} |->
                    IF n = r.name
                    THEN (IF n \in DOMAIN m1
                          THEN [m1[n] EXCEPT !.status = "ok", !.scores = Len(r.scores)]
                          ELSE MetaEntry("ok", None, -1, Len(r.scores)))
                    ELSE m1[n]]
            ELSE m1

RECURSIVE SourceMeta(_, _)
SourceMeta(meta, rs) ==
    IF rs = <<>> THEN meta ELSE SourceMeta(MetaAfter(meta, Head(rs)), Tail(rs))

\* int(x) for the fraction n / d, d > 0: truncation toward zero.
TruncDiv(n, d) == IF n >= 0 THEN n \div d ELSE -((-n) \div d)

\* A mutant of TextScore: the scorer is asked even when no text was collected.
TextScoreAlways(texts, use_llm, reply) ==
    [value |-> Analyze(texts, use_llm, reply), consulted |-> 1]

\* text_score = self.analyzer.analyze(all_texts, context) if all_texts else None
\* (consulted: the number of calls of analyze)
TextScore(texts, use_llm, reply) ==
    IF texts # <<>> THEN [value |-> Analyze(texts, use_llm, reply), consulted |-> 1]
    ELSE [value |-> NoScore, consulted |-> 0]

\* A mutant of BlendedScore: a missing text score is taken to be 0.5 and
\* blended with the numeric mean.
BlendedScoreNeutralText(tsc, nums) ==
    LET n == Len(nums)
        sum == SumSeq(nums)
        t == IF tsc # NoScore THEN tsc ELSE Half
    IN IF n > 0 THEN TruncDiv(6000 * t[1] * n + 4 * sum * t[2], 10 * t[2] * n)
       ELSE IF tsc # NoScore THEN TruncDiv(1000 * tsc[1], tsc[2])
       ELSE 500

\* int(blended * 1000) of the four branches; tsc is the text score or NoScore,
\* nums the collected numeric scores (in thousandths).
BlendedScore(tsc, nums) ==
    LET n == Len(nums)
        sum == SumSeq(nums)
    IN IF tsc # NoScore /\ n > 0
          THEN TruncDiv(6000 * tsc[1] * n + 4 * sum * tsc[2], 10 * tsc[2] * n)
       ELSE IF tsc # NoScore THEN TruncDiv(1000 * tsc[1], tsc[2])
       ELSE IF n > 0 THEN TruncDiv(sum, n)
       ELSE 500

\* _blend(results, context): the score, source_meta, and how often the text
\* scorer was consulted.
Blend(rs, use_llm, reply) ==
    LET ts == TextScore(AllTexts(rs), use_llm, reply)
    IN [done |-> TRUE,
        score |-> BlendedScore(ts.value, AllScores(rs)),
        meta |-> SourceMeta([n \in {} |-> 0], rs),
        analyzed |-> ts.consulted]

NoReport == [done |-> FALSE, composite |-> 0, scores |-> [i \in {} |-> 0],
             available_sources |-> {}]
NotBlended == [done |-> FALSE, score |-> 0, meta |-> [n \in {} |-> 0], analyzed |-> 0]
NoPrev == [op |-> "none", score |-> 0, reply |-> LLMFault]

\* The answers the remote scorer can give in this configuration.
RepliesFor(cfg) == IF cfg.use_local_llm THEN LLMReplies ELSE { LLMFault }

InitBlend ==
    /\ results \in ListsUpTo(MaxResults)
    /\ llm_reply \in RepliesFor(config)
    /\ blend = NotBlended
    /\ prev = NoPrev

\* _blend is applied to the list.
BlendCall ==
    /\ ~blend.done
    /\ blend' = Blend(results, config.use_local_llm, llm_reply)
    /\ UNCHANGED <<results, llm_reply, prev>>
    /\ OnlyBlend

InsertAt(q, i, r) == SubSeq(q, 1, i - 1) \o <<r>> \o SubSeq(q, i, Len(q))
RemoveAt(q, i) == SubSeq(q, 1, i - 1) \o SubSeq(q, i + 1, Len(q))

\* _blend is applied again to the list changed in one error member.
Reblend(op, rs) ==
    /\ blend.done
    /\ prev' = [op |-> op, score |-> blend.score, reply |-> llm_reply]
    /\ results' = rs
    /\ llm_reply' \in RepliesFor(config)
    /\ blend' = Blend(rs, config.use_local_llm, llm_reply')
    /\ OnlyBlend

AddError ==
    \E i \in 1..(Len(results) + 1), r \in SourceResults :
        /\ Len(results) < MaxResults
        /\ ErrorSet(r)
        /\ Reblend("add", InsertAt(results, i, r))

RemoveError ==
    \E i \in 1..Len(results) :
        /\ ErrorSet(results[i])
        /\ Reblend("remove", RemoveAt(results, i))

ChangeError ==
    \E i \in 1..Len(results), r \in SourceResults :
        /\ ErrorSet(results[i])
        /\ ErrorSet(r)
        /\ r # results[i]
        /\ Reblend("change", [results EXCEPT ![i] = r])

NextBlend == BlendCall \/ AddError \/ RemoveError \/ ChangeError

(***************************************************************************)
(* SubindexAggregator.score_peace .. score_wellness: each makes its adapter *)
(* calls through _safe_fetch, one after the other, and blends the results.  *)
(* (The waiting of _rate_limited_gdelt is the rate gate above; here the     *)
(* gdelt call is an adapter call like the others.)                          *)
(***************************************************************************)
\* The sets of configured credentials the scoring operations are run with:
\* none, all, and two partial ones.
KeyChoices ==
    { {},
      { "newsapi_key", "twitter_bearer_token", "serper_api_key", "reddit_client_id",
        "reddit_client_secret", "youtube_api_key", "aqicn_token" },
      {"reddit_client_id"},
      {"aqicn_token", "newsapi_key"} }

When(cond, q) == IF cond THEN q ELSE <<>>
AqicnCalls == <<"aqicn_london", "aqicn_new-york", "aqicn_tokyo", "aqicn_paris",
                "aqicn_sydney">>

\* The first arguments of the _safe_fetch calls of each operation, in order.
PeaceCalls(ks) ==
    <<"gdelt", "reliefweb">>
    \o When("newsapi_key" \in ks, <<"newsapi">>)
    \o When("serper_api_key" \in ks, <<"serper">>)
    \o When("reddit_client_id" \in ks, <<"reddit">>)
    \o When("youtube_api_key" \in ks, <<"youtube">>)
CharityCalls(ks) ==
    <<"gdelt", "reliefweb">>
    \o When("newsapi_key" \in ks, <<"newsapi">>)
    \o When("serper_api_key" \in ks, <<"serper">>)
    \o When("reddit_client_id" \in ks, <<"reddit">>)
SocialCalls(ks) ==
    <<"hedonometer", "gdelt">>
    \o When("twitter_bearer_token" \in ks, <<"twitter">>)
    \o When("newsapi_key" \in ks, <<"newsapi">>)
    \o When("reddit_client_id" \in ks, <<"reddit">>)
    \o When("youtube_api_key" \in ks, <<"youtube">>)
EnvironmentCalls(ks) ==
    <<"open_meteo", "uk_carbon", "gdelt", "gbif_bees", "inaturalist_bees",
      "faostat_bees", "gfw">>
    \o When("aqicn_token" \in ks, AqicnCalls)
    \o When("newsapi_key" \in ks, <<"newsapi">>)
    \o When("serper_api_key" \in ks, <<"serper">>)
WellnessCalls(ks) ==
    <<"disease_sh", "world_bank", "who_life_expectancy", "un_sdg_maternal",
      "gdelt", "reliefweb">>
    \o When("newsapi_key" \in ks, <<"newsapi">>)
    \o When("reddit_client_id" \in ks, <<"reddit">>)
Plan(k, ks) ==
    CASE k = 0 -> PeaceCalls(ks)
      [] k = 1 -> CharityCalls(ks)
      [] k = 2 -> SocialCalls(ks)
      [] k = 3 -> EnvironmentCalls(ks)
      [] k = 4 -> WellnessCalls(ks)

\* The adapters by what their results carry.
TextAdapters == { "gdelt", "reliefweb", "newsapi", "serper", "reddit", "youtube", "twitter" }
IsAqicn(call) == \E i \in 1..Len(AqicnCalls) : AqicnCalls[i] = call

\* The name the adapter itself gives its results.
AdapterName(call) ==
    CASE call = "open_meteo"          -> "open_meteo_aqi"
      [] call = "world_bank"          -> "world_bank_SP.DYN.LE00.IN"
      [] call = "who_life_expectancy" -> "who_WHOSIS_000001"
      [] call = "un_sdg_maternal"     -> "un_sdg_3.1.1"
      [] IsAqicn(call)                -> "aqicn"
      [] OTHER                        -> call

SourceResult(name, txts, nums, error) ==
    [name |-> name, error |-> error, texts |-> txts, scores |-> nums]

\* The result of an adapter that got data: texts, a score (fetch_world_bank:
\* the raw value, 71.0 years), or both.
AdapterData(call) ==
    SourceResult(AdapterName(call),
                 IF call \in TextAdapters THEN <<TextPeace>>
                 ELSE IF call \in { "inaturalist_bees", "faostat_bees", "gfw",
                                      "who_life_expectancy", "un_sdg_maternal" } THEN << <<"the">> >> ELSE <<>>,
                 IF call \in TextAdapters THEN <<>>
                 ELSE IF call = "world_bank" THEN <<71000>>
                 ELSE IF call = "gfw" THEN <<500>> ELSE <<250>>,
                 None)
\* The adapters that return a result with an error of their own.
ReportsError(call) ==
    \/ call \in { "gdelt", "reliefweb", "hedonometer", "uk_carbon", "world_bank",
                  "faostat_bees", "gfw", "who_life_expectancy", "un_sdg_maternal",
                  "newsapi", "reddit" }
    \/ IsAqicn(call)
\* fetch_faostat_beehives and fetch_global_forest_watch catch their own faults.
CanRaise(call) == call \notin { "faostat_bees", "gfw" }
\* str(e) of the fault an adapter raises.
FaultMessages == { "", "timed out" }

\* What the adapter can return, by kind of outcome.  The text adapters and
\* fetch_open_meteo_aqi return a result without error and without data when
\* the service lists nothing (fetch_open_meteo_aqi: when every city fails).
AdapterReturns(call) ==
    { [kind |-> "data", result |-> AdapterData(call)] }
    \cup { [kind |-> "empty", result |-> SourceResult(AdapterName(call), <<>>, <<>>, None)] :
             x \in { c \in {call} : c \in TextAdapters \cup {"open_meteo"} } }
    \cup { [kind |-> "error", result |-> SourceResult(AdapterName(call), <<>>, <<>>, "No data")] :
             x \in { c \in {call} : ReportsError(c) } }

\* score_wellness, lines 952-956: the raw life expectancy is normalised,
\* max(0.0, min(1.0, (raw_le - 50) / 35.0)); values are thousandths.
Normalized(call, r) ==
    IF call = "world_bank" /\ r.scores # <<>>
    THEN [r EXCEPT !.scores = << Max(0, Min(1000, TruncDiv(Head(r.scores) - 50000, 35))) >>]
    ELSE r

Invoked(call, kind, message) == [call |-> call, kind |-> kind, message |-> message]
\* The adapter calls so far that did not give data.
Faults == Cardinality({ i \in 1..Len(invoked) : invoked[i].kind # "data" })
NextCall == Plan(category, keys)[Len(invoked) + 1]

\* score_peace() .. score_wellness() is entered: results = [].
ScoreStart(k) ==
    /\ score_pc \in { "idle", "blended" }
    /\ category' = k
    /\ score_pc' = "fetching"
    /\ invoked' = <<>>
    /\ results' = <<>>
    /\ blend' = NotBlended
    /\ OnlyScore

\* _safe_fetch(name, fn, ...): fn returns a result.
FetchReturns ==
    /\ score_pc = "fetching"
    /\ Len(invoked) < Len(Plan(category, keys))
    /\ \E o \in AdapterReturns(NextCall) :
          /\ o.kind # "data" => Faults < MaxFaults
          /\ results' = Append(results, Normalized(NextCall, o.result))
          /\ invoked' = Append(invoked, Invoked(NextCall, o.kind, o.result.error))
    /\ UNCHANGED <<category, score_pc, blend>>
    /\ OnlyScore

\* A mutant of FetchRaises: the fault leaves the scoring operation.
FetchRaisesUncaught ==
    /\ score_pc = "fetching"
    /\ Len(invoked) < Len(Plan(category, keys))
    /\ CanRaise(NextCall)
    /\ Faults < MaxFaults
    /\ \E m \in FaultMessages :
          invoked' = Append(invoked, Invoked(NextCall, "raised", m))
    /\ score_pc' = "raised"
    /\ UNCHANGED <<category, results, blend>>
    /\ OnlyScore

\* _safe_fetch(name, fn, ...): fn raises e, caught at line 266;
\* SourceResult(name=name, error=str(e)) is returned instead.
FetchRaises ==
    /\ score_pc = "fetching"
    /\ Len(invoked) < Len(Plan(category, keys))
    /\ CanRaise(NextCall)
    /\ Faults < MaxFaults
    /\ \E m \in FaultMessages :
          /\ results' = Append(results, SourceResult(NextCall, <<>>, <<>>, m))
          /\ invoked' = Append(invoked, Invoked(NextCall, "raised", m))
    /\ UNCHANGED <<category, score_pc, blend>>
    /\ OnlyScore

\* return self._blend(results, context)
ScoreBlend ==
    /\ score_pc = "fetching"
    /\ Len(invoked) = Len(Plan(category, keys))
    /\ blend' = Blend(results, config.use_local_llm, llm_reply)
    /\ score_pc' = "blended"
    /\ UNCHANGED <<category, invoked, results>>
    /\ OnlyScore

NextScore ==
    \/ \E k \in 0..4 : ScoreStart(k)
    \/ FetchReturns
    \/ FetchRaises
    \/ ScoreBlend

(***************************************************************************)
(* main, SentimentPipeline.run_daemon and run_once.  A scoring operation   *)
(* called by run_once is one step here: it returns the score the blender   *)
(* gave, or a fault leaves it (_analyze_keyword on a text that is no       *)
(* string, sum() over a score that is no number).                           *)
(***************************************************************************)
\* The scores of the end-to-end scenario, ids 0..4.
ExampleScores == <<800, 600, 900, 400, 700>>

weights == <<2000, 1500, 2000, 1500, 1500>>

\* A mutant of Composite: every category is given the weight 1700.
CompositeEqualWeights(sc) ==
    (1700 * (sc[0] + sc[1] + sc[2] + sc[3] + sc[4])) \div 8500

\* composite = sum(scores[i] * weights[i] for i in range(5));
\* off_chain_composite = composite // 8500
Composite(sc) ==
    (sc[0] * weights[1] + sc[1] * weights[2] + sc[2] * weights[3]
     + sc[3] * weights[4] + sc[4] * weights[5]) \div 8500

\* Config.available_sources()
AvailableSources(ks) ==
    { "gdelt", "open_meteo", "carbon_intensity", "hedonometer", "disease_sh",
      "world_bank", "reliefweb", "gbif_bees", "inaturalist_bees", "faostat_bees",
      "global_forest_watch", "who_gho", "un_sdg" }
    \cup (IF "newsapi_key" \in ks THEN {"newsapi"} ELSE {})
    \cup (IF "twitter_bearer_token" \in ks THEN {"twitter"} ELSE {})
    \cup (IF "serper_api_key" \in ks THEN {"serper"} ELSE {})
    \cup (IF "reddit_client_id" \in ks /\ "reddit_client_secret" \in ks
          THEN {"reddit"} ELSE {})
    \cup (IF "youtube_api_key" \in ks THEN {"youtube"} ELSE {})
    \cup (IF "aqicn_token" \in ks THEN {"aqicn"} ELSE {})

\* The dict run_once returns (without the timestamp and the per-source status).
Report(comp, sc, ks) ==
    [done |-> TRUE, composite |-> comp, scores |-> sc,
     available_sources |-> AvailableSources(ks)]

\* run_once(dry_run) is entered, by main or by the loop of run_daemon after
\* time.sleep returned: scores = {}.  The locals of the submit_scores call of
\* the cycle before are gone.
RunOnceEnter ==
    /\ drv \in { "main", "sleeping" }
    /\ drv' = "scoring"
    /\ run_scores' = [i \in {} |-> 0]
    /\ off_chain_composite' = 0
    /\ submit_calls' = 0
    /\ report' = NoReport
    /\ pc' = "idle" /\ scores' = [i \in {} |-> 0] /\ todo' = <<>> /\ cur' = -1
    /\ nonce' = -1 /\ calls' = <<>> /\ log' = <<>>
    /\ receipt' = -1
    /\ UNCHANGED <<mode, last_cycle, cycle, chain_nonce>>
    /\ OnlyDriver

\* score, meta = self.aggregator.score_...(); scores[k] = score
ScoreCategory ==
    /\ drv = "scoring"
    /\ \E k \in 0..4 :
          /\ DOMAIN run_scores = 0..(k - 1)
          /\ \E sc \in { ExampleScores[k + 1], 500 } :
                run_scores' = [i \in 0..k |-> IF i = k THEN sc ELSE run_scores[i]]
    /\ UNCHANGED <<mode, drv, off_chain_composite, submit_calls, report, last_cycle>>
    /\ UNCHANGED subVars
    /\ OnlyDriver

\* A mutant of ScoreRaises: the fault of the scoring operation is swallowed
\* and run_once goes on to the submission with the scores it has.
ScoreRaisesSubmits ==
    /\ drv = "scoring"
    /\ DOMAIN run_scores # 0..4
    /\ drv' = "submit"
    /\ UNCHANGED <<mode, run_scores, off_chain_composite, submit_calls, report,
                   last_cycle>>
    /\ UNCHANGED subVars
    /\ OnlyDriver

\* A fault of the scoring operation leaves run_once.
ScoreRaises ==
    /\ drv = "scoring"
    /\ DOMAIN run_scores # 0..4
    /\ drv' = "failed"
    /\ UNCHANGED <<mode, run_scores, off_chain_composite, submit_calls, report,
                   last_cycle>>
    /\ UNCHANGED subVars
    /\ OnlyDriver

\* The off-chain composite is computed from the five scores.
ComputeComposite ==
    /\ drv = "scoring"
    /\ DOMAIN run_scores = 0..4
    /\ off_chain_composite' = Composite(run_scores)
    /\ drv' = "submit"
    /\ UNCHANGED <<mode, run_scores, submit_calls, report, last_cycle>>
    /\ UNCHANGED subVars
    /\ OnlyDriver

\* self.submitter.submit_scores(scores, dry_run=dry_run) with dry_run set:
\* the scores are logged and the method returns.
RunOnceSubmitDryRun ==
    /\ drv = "submit"
    /\ dry_run
    /\ scores' = run_scores
    /\ log' = DryRunLines(run_scores)
    /\ calls' = <<>>
    /\ pc' = "returned"
    /\ drv' = "submitting"
    /\ submit_calls' = submit_calls + 1
    /\ receipt' = -1
    /\ UNCHANGED <<cycle, todo, cur, nonce, chain_nonce>>
    /\ UNCHANGED <<mode, run_scores, off_chain_composite, report, last_cycle>>
    /\ OnlyDriver

\* self.submitter.submit_scores(scores, dry_run=dry_run) without dry_run:
\* the try block is entered.
RunOnceSubmitLive ==
    /\ drv = "submit"
    /\ ~dry_run
    /\ scores' = run_scores
    /\ log' = <<>>
    /\ calls' = <<>>
    /\ pc' = "import"
    /\ drv' = "submitting"
    /\ submit_calls' = submit_calls + 1
    /\ receipt' = -1
    /\ UNCHANGED <<cycle, todo, cur, nonce, chain_nonce>>
    /\ UNCHANGED <<mode, run_scores, off_chain_composite, report, last_cycle>>
    /\ OnlyDriver

\* submit_scores returned; "Cycle complete."; run_once returns its dict.
RunOnceReturn ==
    /\ drv = "submitting"
    /\ pc = "returned"
    /\ report' = Report(off_chain_composite, run_scores, keys)
    /\ drv' = "returned"
    /\ UNCHANGED <<mode, run_scores, off_chain_composite, submit_calls, last_cycle>>
    /\ UNCHANGED subVars
    /\ OnlyDriver

\* main without --daemon: print(json.dumps(result)), or the fault of run_once
\* ends the process with a traceback.
MainEnds ==
    /\ mode = "once"
    /\ drv \in { "returned", "failed" }
    /\ drv' = "exit"
    /\ last_cycle' = IF drv = "returned" THEN "completed" ELSE "failed"
    /\ UNCHANGED <<mode, run_scores, off_chain_composite, submit_calls, report>>
    /\ UNCHANGED subVars
    /\ OnlyDriver

\* A mutant of DaemonCatch: the fault of run_once leaves the loop.
DaemonCrash ==
    /\ mode = "daemon"
    /\ drv = "failed"
    /\ drv' = "exit"
    /\ last_cycle' = "failed"
    /\ UNCHANGED <<mode, run_scores, off_chain_composite, submit_calls, report>>
    /\ UNCHANGED subVars
    /\ OnlyDriver

\* run_daemon: except Exception as e: log.error, traceback; then time.sleep.
DaemonCatch ==
    /\ mode = "daemon"
    /\ drv = "failed"
    /\ drv' = "sleeping"
    /\ last_cycle' = "failed"
    /\ UNCHANGED <<mode, run_scores, off_chain_composite, submit_calls, report>>
    /\ UNCHANGED subVars
    /\ OnlyDriver

\* run_daemon: run_once returned (the dict is dropped); then time.sleep.
DaemonGoOn ==
    /\ mode = "daemon"
    /\ drv = "returned"
    /\ drv' = "sleeping"
    /\ last_cycle' = "completed"
    /\ UNCHANGED <<mode, run_scores, off_chain_composite, submit_calls, report>>
    /\ UNCHANGED subVars
    /\ OnlyDriver

\* The steps of the driver: the statements of submit_scores after its entry
\* (the map of run_once has the ids 0..4, so no id is skipped), then those of
\* run_once, main and run_daemon.
NextPipeline ==
    \/ ImportOk \/ ImportFail
    \/ SetupOk \/ GetNonceOk
    \/ LoopSubmit \/ LoopDone
    \/ BuildOk \/ SignOk \/ SendOk
    \/ WaitOk \/ WaitFail
    \/ Raise
    \/ RunOnceEnter
    \/ ScoreCategory \/ ScoreRaises
    \/ ComputeComposite
    \/ RunOnceSubmitDryRun \/ RunOnceSubmitLive
    \/ RunOnceReturn
    \/ MainEnds
    \/ DaemonCatch \/ DaemonGoOn

(***************************************************************************)
(* Specifications.                                                         *)
(***************************************************************************)
\* Settings that do not matter to a component are held at one value.
SubmitConfigs == { c \in [oracle_address : BOOLEAN, reporter_private_key : BOOLEAN,
                          use_local_llm : BOOLEAN] : ~c.use_local_llm }
BlendConfigs == { c \in [oracle_address : BOOLEAN, reporter_private_key : BOOLEAN,
                         use_local_llm : BOOLEAN] :
                    c.oracle_address /\ c.reporter_private_key }
DefaultConfig == [oracle_address |-> TRUE, reporter_private_key |-> TRUE,
                  use_local_llm |-> FALSE]

GateAtRest ==
    /\ now = 6
    /\ gdelt_last_call = 0
    /\ gate = [t \in PathsSequential |-> GateIdle]
    /\ releases = <<>>

BlendAtRest ==
    /\ results = <<>>
    /\ llm_reply = LLMFault
    /\ blend = NotBlended
    /\ prev = NoPrev

ScorerAtRest ==
    /\ text_list = <<>>
    /\ scored = NotScored

ScoreAtRest ==
    /\ category = -1
    /\ score_pc = "idle"
    /\ invoked = <<>>

PipeAtRest ==
    /\ mode = "once"
    /\ drv = "main"
    /\ run_scores = [i \in {} |-> 0]
    /\ off_chain_composite = 0
    /\ submit_calls = 0
    /\ report = NoReport
    /\ last_cycle = "none"

\* The submission sequencer, over any number of cycles.
Init ==
    /\ dry_run \in BOOLEAN
    /\ config \in SubmitConfigs
    /\ InitSubmit
    /\ keys = {}
    /\ GateAtRest
    /\ BlendAtRest
    /\ ScorerAtRest
    /\ ScoreAtRest
    /\ PipeAtRest

Spec == Init /\ [][Next]_vars

SubmitAtRest ==
    /\ pc = "idle" /\ cycle = 0 /\ scores = [i \in {} |-> 0] /\ todo = <<>>
    /\ cur = -1 /\ nonce = -1 /\ chain_nonce = 0 /\ calls = <<>> /\ log = <<>>
    /\ receipt = -1

\* The rate gate called from one execution path.
InitGateSequential ==
    /\ dry_run = FALSE /\ config = DefaultConfig
    /\ keys = {}
    /\ SubmitAtRest /\ BlendAtRest /\ ScorerAtRest /\ ScoreAtRest /\ PipeAtRest
    /\ InitGate(PathsSequential)

\* The rate gate called from two execution paths at once.
InitGateConcurrent ==
    /\ dry_run = FALSE /\ config = DefaultConfig
    /\ keys = {}
    /\ SubmitAtRest /\ BlendAtRest /\ ScorerAtRest /\ ScoreAtRest /\ PipeAtRest
    /\ InitGate(PathsConcurrent)

SpecGate == InitGateSequential /\ [][NextGate]_vars
SpecGateConcurrent == InitGateConcurrent /\ [][NextGate]_vars

\* The blender applied to lists of results.
InitBlender ==
    /\ dry_run = FALSE /\ config \in BlendConfigs
    /\ keys = {}
    /\ SubmitAtRest /\ GateAtRest /\ ScorerAtRest /\ ScoreAtRest /\ PipeAtRest
    /\ InitBlend

SpecBlend == InitBlender /\ [][NextBlend]_vars

\* The five scoring operations, with any adapter failing.
InitScore ==
    /\ dry_run = FALSE /\ config = DefaultConfig
    /\ keys \in KeyChoices
    /\ SubmitAtRest /\ GateAtRest /\ BlendAtRest /\ ScorerAtRest /\ ScoreAtRest
    /\ PipeAtRest

SpecScore == InitScore /\ [][NextScore]_vars

\* The driver: main, then one cycle or the loop of the daemon.
InitPipeline ==
    /\ dry_run \in BOOLEAN
    /\ config \in SubmitConfigs
    /\ keys = {}
    /\ pc = "idle" /\ cycle = 0 /\ scores = [i \in {} |-> 0] /\ todo = <<>>
    /\ cur = -1 /\ nonce = -1 /\ calls = <<>> /\ log = <<>> /\ receipt = -1
    \* room for one whole batch and one more update before the model stops mining
    /\ chain_nonce = MaxNonce - 6
    /\ GateAtRest /\ BlendAtRest /\ ScorerAtRest /\ ScoreAtRest
    /\ mode \in { "once", "daemon" }
    /\ drv = "main"
    /\ run_scores = [i \in {} |-> 0]
    /\ off_chain_composite = 0
    /\ submit_calls = 0
    /\ report = NoReport
    /\ last_cycle = "none"

SpecPipeline == InitPipeline /\ [][NextPipeline]_vars

\* The same with the steps of the driver taken whenever they can be: every
\* blocking call of a cycle has a timeout, and time.sleep returns.
SpecPipelineFair == SpecPipeline /\ WF_vars(NextPipeline)

\* The composite of a dry-run cycle, over all scores the five scoring
\* operations can have returned (the blender does not clamp: a score can
\* lie outside [0, 1000]).
InitComposite ==
    /\ dry_run = TRUE /\ config = DefaultConfig
    /\ keys = {}
    /\ SubmitAtRest /\ GateAtRest /\ BlendAtRest /\ ScorerAtRest /\ ScoreAtRest
    /\ mode = "once"
    /\ drv = "scoring"
    /\ run_scores \in [0..4 -> { -100, 400, 600, 700, 800, 900, 1000 }]
    /\ off_chain_composite = 0
    /\ submit_calls = 0
    /\ report = NoReport
    /\ last_cycle = "none"

NextComposite == ComputeComposite \/ RunOnceSubmitDryRun \/ RunOnceReturn

SpecComposite == InitComposite /\ [][NextComposite]_vars

\* The text scorer applied to lists of texts.
InitScorerSpec ==
    /\ dry_run = FALSE /\ config \in BlendConfigs
    /\ keys = {}
    /\ SubmitAtRest /\ GateAtRest /\ ScoreAtRest /\ PipeAtRest
    /\ results = <<>> /\ blend = NotBlended /\ prev = NoPrev
    /\ text_list \in TextListsUpTo(MaxTexts)
    /\ llm_reply \in ScorerRepliesFor(config)
    /\ scored = NotScored

SpecScorer == InitScorerSpec /\ [][NextScorer]_vars


(***************************************************************************)
(* Properties of the submission sequencer, checked under Spec.             *)
(***************************************************************************)
Positions == 1..Len(calls)
UpdateOps == { "build", "sign", "send", "wait" }
\* The ids below 5 of the score map, ascending: the categories a batch has to update.
RECURSIVE Below5(_)
Below5(ks) ==
    IF ks = <<>> THEN <<>>
    ELSE (IF Head(ks) < NumSubindices THEN <<Head(ks)>> ELSE <<>>) \o Below5(Tail(ks))
Categories == Below5(SortedKeys(DOMAIN scores))
\* The categories whose confirmation wait returned.
Confirmed == { calls[q].id : q \in { q \in Positions : calls[q].op = "wait" /\ calls[q].ok } }
\* The ids of the log lines of one kind.
Logged(kind) == { log[i].id : i \in { i \in 1..Len(log) : log[i].kind = kind } }
\* The calls of one operation, in order.
CallsOf(op) == SelectSeq(calls, LAMBDA c : c.op = op)

\* C1: in LIVE mode, once a call of the batch has failed (for category k, or
\* before any category), nothing more is done in that submit_scores call: no
\* update of a category j > k is built, signed, submitted or waited for, every
\* other call precedes the failed one, and the method has returned.
C1_NoUpdateAfterFailure ==
    \A p \in Positions :
        ~calls[p].ok =>
            /\ ~dry_run
            /\ pc = "returned"
            /\ \A q \in Positions \ {p} :
                  q < p /\ calls[q].ok /\ calls[q].id <= calls[p].id

\* C1 witness: the submit of category 2 has failed, with categories 3 and 4 in the map.
C1_Witness ==
    /\ \E p \in Positions : calls[p] = Call("send", 2, calls[p].nonce, FALSE)
    /\ {3, 4} \subseteq DOMAIN scores
    /\ Confirmed = {0, 1}

\* C2: when a LIVE batch has aborted, the scores logged as not submitted are
\* exactly those of the categories that were not confirmed, and the confirmed
\* categories are the ones logged as updated.
C2_UnsentAreTheUnconfirmed ==
    (pc = "returned" /\ \E p \in Positions : ~calls[p].ok) =>
        /\ Logged("not_submitted") = { j \in DOMAIN scores : j < NumSubindices } \ Confirmed
        /\ Logged("updated") = Confirmed

\* C3: the updates are attempted in ascending category order, each category at
\* most once, without leaving one out, and an update is submitted only after
\* the confirmation wait of every update submitted before it has returned.
C3_AscendingOrder ==
    /\ \A op \in UpdateOps :
          \A p, q \in Positions :
              (p < q /\ calls[p].op = op /\ calls[q].op = op) => calls[p].id < calls[q].id
    /\ LET built == CallsOf("build")
       IN /\ Len(built) <= Len(Categories)
          /\ \A i \in 1..Len(built) : built[i].id = Categories[i]
    /\ \A p, q \in Positions :
          (p < q /\ calls[p].op = "send" /\ calls[q].op = "send") =>
              \E w \in Positions :
                  /\ p < w /\ w < q
                  /\ calls[w] = Call("wait", calls[p].id, calls[p].nonce, TRUE)

\* C3 witness: a batch over ids 0..4 (and 5) that submitted all five updates.
C3_Witness ==
    /\ pc = "returned"
    /\ Len(CallsOf("send")) = 5
    /\ Confirmed = 0..4
    /\ 5 \in DOMAIN scores

\* C4: with n0 the sequence number fetched at the start of the batch, the
\* i-th update built (from 0) carries n0 + i, which is n0 plus the number of
\* updates confirmed before it; the local number is n0 plus the number of
\* confirmed updates, also after a failed update; no two updates built in one
\* batch carry the same number.
C4_SequenceNumbers ==
    LET fetched == CallsOf("get_nonce")
        built == CallsOf("build")
    IN (Len(fetched) > 0 /\ fetched[1].ok) =>
          LET n0 == fetched[1].nonce
          IN /\ \A i \in 1..Len(built) : built[i].nonce = n0 + (i - 1)
             /\ \A q \in Positions :
                   calls[q].op \in UpdateOps =>
                       calls[q].nonce = n0 + Cardinality({ w \in 1..(q - 1) :
                                              calls[w].op = "wait" /\ calls[w].ok })
             /\ nonce = n0 + Cardinality(Confirmed)
             /\ \A i, j \in 1..Len(built) : i # j => built[i].nonce # built[j].nonce

\* C4 witness: a batch that confirmed two updates and then failed on the third.
C4_Witness ==
    /\ pc = "returned"
    /\ Cardinality(Confirmed) = 2
    /\ Len(CallsOf("build")) = 3
    /\ \E p \in Positions : ~calls[p].ok /\ calls[p].op \in UpdateOps

\* C5: a LIVE call of submit_scores fetches the sequence number at most once;
\* once the chain client is set up the batch fetches it exactly once, before
\* the first update is built, and never again; and the number in use
\* while the batch runs is the account's current count, as fetched in this
\* cycle, not a value left over from the previous cycle.
C5_FetchedOnceAndFresh ==
    /\ Len(CallsOf("get_nonce")) <= 1
    /\ \A q \in Positions :
          calls[q].op \in UpdateOps =>
              \E p \in 1..(q - 1) : calls[p].op = "get_nonce" /\ calls[p].ok
    /\ pc \in {"loop", "build", "sign", "send", "wait"} =>
          /\ Len(CallsOf("get_nonce")) = 1
          /\ nonce = chain_nonce
    /\ (pc = "returned" /\ \E p \in Positions : calls[p] = Call("setup", -1, -1, TRUE)) =>
          Len(CallsOf("get_nonce")) = 1

\* C5 witness: the second cycle is building an update, and the first cycle
\* has changed the account's count.
C5_Witness ==
    /\ cycle = 2
    /\ pc = "sign"
    /\ chain_nonce \notin InitNonces
    /\ Len(CallsOf("get_nonce")) = 1

\* C6: with dry-run set, no chain-client operation occurs in any cycle,
\* whatever credentials are configured: submit_scores never enters its try
\* block, and it logs one dry-run line, carrying the score, for every id below 5.
C6_DryRunTouchesNoChainClient ==
    dry_run =>
        /\ calls = <<>>
        /\ pc \in {"idle", "returned"}
        /\ chain_nonce \in InitNonces
        /\ \A i \in 1..Len(log) : log[i].kind = "dry_run" /\ log[i].score = scores[log[i].id]
        /\ pc = "returned" => Logged("dry_run") = { j \in DOMAIN scores : j < NumSubindices }

\* C6 witness: a dry-run cycle has logged its scores with address and key configured.
C6_Witness ==
    /\ dry_run
    /\ config.oracle_address /\ config.reporter_private_key
    /\ pc = "returned"
    /\ Len(log) = 5


(***************************************************************************)
(* Properties of the rate gate.                                            *)
(***************************************************************************)
\* C7 (under SpecGate, calls made one after another): any two moments at
\* which the gate releases a call are at least 6 seconds apart, whether the
\* fetch after the earlier release returned or raised; and the marker is
\* written before the fetch starts: while a fetch runs, and after it, the
\* marker is the time of the latest release.
C7_ReleasesSixApart ==
    /\ \A i, j \in 1..Len(releases) :
          i < j => releases[j] - releases[i] >= GDELT_MIN_INTERVAL
    /\ \A t \in DOMAIN gate :
          gate[t].pc \in {"fetch", "idle"} /\ releases # <<>> =>
              gdelt_last_call = releases[Len(releases)]

\* C7 witness: the fetch of the first call raised, the second call had to
\* wait, and it is released exactly 6 seconds after the first.
C7_Witness ==
    /\ Len(releases) = 2
    /\ releases[2] - releases[1] = GDELT_MIN_INTERVAL
    /\ gate[1].pc = "fetch"
    /\ gate[1].result = "error"

\* C8 (under SpecGateConcurrent, two paths in the gate at once): the read of
\* the marker, the wait and the write of the marker are one critical section,
\* so that in every interleaving any two releases are at least 6 seconds apart.
C8_ConcurrentReleasesSixApart ==
    Cardinality(DOMAIN gate) >= 2 =>
        \A i, j \in 1..Len(releases) :
            i < j => releases[j] - releases[i] >= GDELT_MIN_INTERVAL

(***************************************************************************)
(* Properties of the blender, checked under SpecBlend.                     *)
(***************************************************************************)
NoData(r) == r.texts = <<>> /\ r.scores = <<>>

C10_NeutralWithoutData ==
    (blend.done /\ \A i \in 1..Len(results) : NoData(results[i])) =>
        blend.score = 500 /\ blend.analyzed = 0

\* C10 witness: the blender was applied to an error-only result and a result
\* whose fault left an empty message.
C10_Witness ==
    /\ blend.done
    /\ Len(results) = 2
    /\ \A i \in 1..2 : NoData(results[i])
    /\ results[1].error = "HTTP 500"
    /\ results[2].error = ""

\* s is an integer nearest to sum / n (either neighbour on a tie).
Nearest(s, sum, n) == 2 * s * n - 2 * sum <= n /\ 2 * sum - 2 * s * n <= n

\* C11 (as the claim states it): when the members without error carry numeric
\* scores only, the score is the mean of all their numeric scores times 1000,
\* rounded to the nearest integer and clamped to [0, 1000].
C11_NumericOnlyRounded ==
    (blend.done /\ AllTexts(results) = <<>> /\ AllScores(results) # <<>>) =>
        \E s \in -1..2001 :
            /\ Nearest(s, SumSeq(AllScores(results)), Len(AllScores(results)))
            /\ blend.score = ClampScore(s)

\* s is num / den up to the conversion to an integer: less than one unit
\* away from it (den > 0).
WithinOne(s, num, den) == (s - 1) * den < num /\ num < (s + 1) * den

\* C12: with both signals among the members without error the blended value
\* is 0.6 * text score + 0.4 * mean of the numeric scores; with texts only it
\* is the text score; with numeric scores only it is their mean, the missing
\* text score being left out, not replaced by 0.5.  (The score is 1000 times
\* the blended value, converted to an integer; t is the text score as the
\* fraction t[1] / t[2], sum holds thousandths.)
C12_BlendWeights ==
    LET texts == AllTexts(results)
        nums == AllScores(results)
        n == Len(nums)
        sum == SumSeq(nums)
        t == Analyze(texts, config.use_local_llm, llm_reply)
    IN blend.done =>
        /\ (texts # <<>> /\ nums # <<>>) =>
              WithinOne(blend.score, 6000 * t[1] * n + 4 * sum * t[2], 10 * t[2] * n)
        /\ (texts # <<>> /\ nums = <<>>) => WithinOne(blend.score, 1000 * t[1], t[2])
        /\ (texts = <<>> /\ nums # <<>>) => WithinOne(blend.score, sum, n)

\* C12 witness: a member with texts that score 1.0 and the numeric score 0.25
\* was blended to 0.6 * 1.0 + 0.4 * 0.25 = 0.7.
C12_Witness ==
    /\ blend.done
    /\ AllTexts(results) = <<TextPeace>>
    /\ AllScores(results) = <<250>>
    /\ ~config.use_local_llm
    /\ blend.score = 700

\* C13 (as the claim states it): for every list of results, numeric values
\* outside [0.0, 1.0] included, the score is an integer in [0, 1000].
C13_ScoreInRange ==
    blend.done => blend.score \in 0..1000

(***************************************************************************)
(* Properties of the text scorer, checked under SpecScorer.                *)
(***************************************************************************)
\* The number of words of the list that fall in the lexicon after lower-casing
\* and stripping.
Matched(lexicon) ==
    Cardinality({ p \in (1..Len(text_list)) \X (1..4) :
                    /\ p[2] <= Len(text_list[p[1]])
                    /\ LowerStrip(text_list[p[1]][p[2]]) \in lexicon })

\* C17: the lexicon scorer gives positive / (positive + negative) over all
\* matched words of the list, or 0.5 when no word matches; scoring the same
\* list again, or the list with its texts in another order, gives the same
\* output.
C17_LexiconOrderIndependent ==
    scored.op # "none" =>
        /\ scored.keyword = IF Matched(POSITIVE) + Matched(NEGATIVE) = 0 THEN Half
                            ELSE <<Matched(POSITIVE), Matched(POSITIVE) + Matched(NEGATIVE)>>
        /\ scored.op \in {"again", "swap"} => scored.keyword = scored.before

\* C17 witness: a list of three texts with positive and negative words was
\* scored, then scored again with two of its texts exchanged: 3 / 6.
C17_Witness ==
    /\ scored.op = "swap"
    /\ text_list = <<TextMixed, TextWar, TextPeace>>
    /\ scored.keyword = <<3, 6>>
    /\ scored.before = <<3, 6>>

\* The content is a decimal number, with or without a minus sign.
Unsigned(content) ==
    IF content # <<>> /\ Head(content) = "-" THEN Tail(content) ELSE content
IsNumber(content) ==
    /\ KeepDigitsAndDots(Unsigned(content)) = Unsigned(content)
    /\ ~FloatRaises(Unsigned(content))
\* The fractions a and b are the same value.
SameValue(a, b) == a # NoScore /\ b # NoScore /\ a[1] * b[2] = b[1] * a[2]

\* C18 (as the claim states it): with the remote strategy enabled, a call that
\* fails (request error, malformed response, an answer no number can be read
\* from) makes analyze return exactly the lexicon value of the same texts and
\* raise nothing; a call that answers a number makes it return that number
\* divided by 100 and clamped to [0, 1].  (An answer that mixes a number with
\* other characters is left to either reading.)
C18_RemoteFallbackAndClamp ==
    (config.use_local_llm /\ scored.op # "none" /\ text_list # <<>>) =>
        LET content == llm_reply.content
            magnitude == FloatOf(Unsigned(content))
        IN /\ (llm_reply.fault \/ FloatRaises(KeepDigitsAndDots(content))) =>
                 scored.value = scored.keyword
           /\ (~llm_reply.fault /\ IsNumber(content)) =>
                 SameValue(scored.value,
                           IF Head(content) = "-" THEN <<0, 1>>
                           ELSE IF magnitude[1] >= 100 * magnitude[2] THEN <<1, 1>>
                           ELSE <<magnitude[1], 100 * magnitude[2]>>)

(***************************************************************************)
(* Properties of the scoring operations, checked under SpecScore.          *)
(***************************************************************************)
\* C14: in each of the five scoring operations a fault raised by an adapter
\* does not leave the operation: the call yields a result that carries the
\* name of the call and the message of the fault and no texts or scores, the
\* adapters after it are invoked as planned, and the blender is called on
\* the results of all of them.
C14_AdapterFaultsContained ==
    /\ score_pc \in { "idle", "fetching", "blended" }
    /\ score_pc # "idle" =>
          /\ Len(results) = Len(invoked)
          /\ Len(invoked) <= Len(Plan(category, keys))
          /\ \A i \in 1..Len(invoked) :
                /\ invoked[i].call = Plan(category, keys)[i]
                /\ invoked[i].kind = "raised" =>
                      results[i] = [name |-> invoked[i].call, error |-> invoked[i].message,
                                    texts |-> <<>>, scores |-> <<>>]
    /\ score_pc = "blended" =>
          /\ Len(invoked) = Len(Plan(category, keys))
          /\ blend.done

\* C14 witness: in score_wellness the first adapter raised, the World Bank
\* adapter after it gave data and the last one raised; all six calls were
\* made and the blender was called.
C14_Witness ==
    /\ score_pc = "blended"
    /\ category = 4
    /\ keys = {}
    /\ Len(invoked) = 6
    /\ invoked[1].kind = "raised" /\ invoked[1].message = "timed out"
    /\ invoked[2].kind = "data"
    /\ invoked[6].kind = "raised"
    /\ results[1] = [name |-> "disease_sh", error |-> "timed out", texts |-> <<>>,
                     scores |-> <<>>]
    /\ blend.done
    /\ blend.meta["disease_sh"].status = "error"

\* C19 (as the claim states it): the provenance record of a category has
\* exactly one entry per adapter invoked, each with status ok or error.
C19_OneEntryPerAdapter ==
    score_pc = "blended" =>
        /\ Cardinality(DOMAIN blend.meta) = Len(invoked)
        /\ \A n \in DOMAIN blend.meta : blend.meta[n].status \in { "ok", "error" }

(***************************************************************************)
(* Properties of the driver, checked under SpecPipeline, SpecPipelineFair  *)
(* and SpecComposite.                                                      *)
(***************************************************************************)
CycleStarted == drv = "scoring" /\ DOMAIN run_scores = {}

\* C15: in daemon mode no fault of a cycle ends the loop; after every cycle,
\* completed or failed, the driver sleeps and then starts another cycle:
\* cycles are started again and again, without end.
C15_DaemonKeepsCycling ==
    /\ [](mode = "daemon" => drv # "exit")
    /\ [](mode = "daemon" /\ drv \in {"returned", "failed"} => <>(drv = "sleeping"))
    /\ [](mode = "daemon" /\ drv = "sleeping" => <>CycleStarted)
    /\ []<>(mode = "daemon" => CycleStarted)

\* C15 witness: the daemon has started a cycle after a cycle that failed.
C15_Witness ==
    /\ mode = "daemon"
    /\ CycleStarted
    /\ last_cycle = "failed"

\* C16: the composite a cycle reports is
\* floor((2000*s0 + 1500*s1 + 2000*s2 + 1500*s3 + 1500*s4) / 8500) of the
\* scores it reports; for the scores 800, 600, 900, 400, 700 it is 700.
C16_CompositeFloor ==
    report.done =>
        LET s == report.scores
            total == 2000 * s[0] + 1500 * s[1] + 2000 * s[2] + 1500 * s[3] + 1500 * s[4]
        IN /\ report.composite * 8500 <= total
           /\ total < (report.composite + 1) * 8500
           /\ s = [i \in 0..4 |-> ExampleScores[i + 1]] => report.composite = 700

\* C16 witness: a cycle has reported the composite 700 for the scores of the
\* end-to-end scenario.
C16_Witness ==
    /\ report.done
    /\ report.scores = [i \in 0..4 |-> ExampleScores[i + 1]]
    /\ report.composite = 700
    /\ off_chain_composite = 700

\* C20: in LIVE mode no fault of the chain client, at whatever step, leaves
\* submit_scores: a cycle fails only before submit_scores is called, and a
\* cycle that called it goes on to return its report, which holds the five
\* category scores.
C20_SubmitFaultsContained ==
    /\ [](pc # "raised")
    /\ [](drv = "failed" => submit_calls = 0 /\ DOMAIN run_scores # 0..4)
    /\ [](report.done => submit_calls = 1 /\ DOMAIN report.scores = 0..4
                           /\ report.scores = run_scores)
    /\ [](~dry_run /\ drv = "submitting" => <>(drv = "returned" /\ report.done))

\* C20 witness: a LIVE cycle whose third update failed at the submit step,
\* after two confirmed updates, has returned its report with the five scores.
C20_Witness ==
    /\ ~dry_run
    /\ drv = "returned"
    /\ report.done
    /\ report.scores = [i \in 0..4 |-> ExampleScores[i + 1]]
    /\ report.composite = 700
    /\ \E i \in 1..Len(calls) : calls[i] = Call("send", 2, calls[i].nonce, FALSE)
    /\ Len(calls) = 14

(***************************************************************************)
(* Properties of the ids the sequencer leaves out, checked under Spec.     *)
(***************************************************************************)
\* C21: whatever the score map, no update of a category id of 5 or more is
\* built, signed, submitted or waited for; passing over such an entry makes
\* no chain-client call and leaves the sequence number and the account's
\* count as they are; and a LIVE batch in which no call failed has confirmed
\* every id below 5 of the map, also when the map holds ids of 5 or more.
C21_NoUpdateFromFive ==
    /\ [](\A p \in Positions : calls[p].op \in UpdateOps => calls[p].id \in 0..4)
    /\ [](pc \in {"build", "sign", "send", "wait"} => cur \in 0..4)
    /\ [][(pc = "loop" /\ todo # <<>> /\ Head(todo) >= 5) =>
             /\ calls' = calls /\ nonce' = nonce /\ chain_nonce' = chain_nonce
             /\ pc' = "loop" /\ todo' = Tail(todo)]_vars
    /\ []((~dry_run /\ pc = "returned" /\ \A p \in Positions : calls[p].ok) =>
             /\ Confirmed = { j \in DOMAIN scores : j < 5 }
             /\ nonce = CallsOf("get_nonce")[1].nonce + Cardinality(Confirmed))

\* C21 witness: a batch over the ids 1, 3 and 6 has passed over id 6 and
\* returned with the updates of 1 and 3 confirmed and no call failed.
C21_Witness ==
    /\ ~dry_run
    /\ pc = "returned"
    /\ DOMAIN scores = {1, 3, 6}
    /\ cur = 6
    /\ Confirmed = {1, 3}
    /\ \A p \in Positions : calls[p].ok
    /\ Len(CallsOf("wait")) = 2

(***************************************************************************)
(* Properties of the confirmation receipt, checked under Spec.             *)
(***************************************************************************)
\* C22: the sequence number is advanced and the next category is taken up
\* only after a confirmation that reports success: when the confirmation
\* wait has returned the receipt of a reverted transaction (status 0), the
\* update counts as failed: the batch has ended, the sequence number is the
\* one that update carried, and the category is not logged as updated.
C22_RevertedReceiptAborts ==
    (/\ Len(calls) > 0
     /\ calls[Len(calls)].op = "wait"
     /\ calls[Len(calls)].ok
     /\ receipt = 0) =>
        /\ pc = "returned"
        /\ nonce = calls[Len(calls)].nonce
        /\ calls[Len(calls)].id \notin Logged("updated")

(***************************************************************************)
(* Properties of the order of a cycle, checked under SpecPipelineFair.     *)
(***************************************************************************)
\* C23: in every cycle the categories are scored one at a time in the order
\* 0, 1, 2, 3, 4; submit_scores is called at most once in a cycle, only after
\* the five scores and the composite have been computed, and with those
\* scores; a cycle that has the five scores goes on to call it; and a cycle
\* in which a scoring operation faulted has not called it and has made no
\* chain-client call and written no submission log line.
C23_ScoreInOrderThenSubmitOnce ==
    /\ [](\E n \in 0..5 : DOMAIN run_scores = 0..(n - 1))
    /\ [][(run_scores' # run_scores /\ DOMAIN run_scores' # {}) =>
             \E k \in 0..4 :
                 /\ DOMAIN run_scores = 0..(k - 1)
                 /\ DOMAIN run_scores' = 0..k
                 /\ \A i \in 0..(k - 1) : run_scores'[i] = run_scores[i]
                 /\ submit_calls = 0]_vars
    /\ [](submit_calls \in {0, 1})
    /\ [][submit_calls' = submit_calls + 1 =>
             /\ DOMAIN run_scores = 0..4
             /\ off_chain_composite = Composite(run_scores)
             /\ scores' = run_scores
             /\ run_scores' = run_scores]_vars
    /\ [](submit_calls = 1 => DOMAIN run_scores = 0..4 /\ scores = run_scores)
    /\ [](report.done => submit_calls = 1)
    /\ [](drv = "failed" =>
             /\ submit_calls = 0
             /\ DOMAIN run_scores # 0..4
             /\ pc = "idle" /\ calls = <<>> /\ log = <<>>)
    /\ []((drv = "scoring" /\ DOMAIN run_scores = 0..4) => <>(submit_calls = 1))

\* C23 witness: after a LIVE cycle that submitted its five updates, the next
\* cycle of the daemon has faulted in the scoring of category 3 and has
\* submitted nothing.
C23_Witness ==
    /\ ~dry_run
    /\ mode = "daemon"
    /\ last_cycle = "completed"
    /\ chain_nonce = MaxNonce - 1
    /\ drv = "failed"
    /\ DOMAIN run_scores = 0..2
    /\ submit_calls = 0
    /\ calls = <<>>

(***************************************************************************)
(* Properties of the credential gates, checked under SpecScore.            *)
(***************************************************************************)
\* C24: whatever credentials are configured, a credential-gated adapter
\* (newsapi, twitter, serper, reddit, youtube, aqicn) that a scoring
\* operation has invoked is a source Config.available_sources lists for the
\* same credentials; the reddit adapter is invoked only with both the
\* client id and the client secret configured.
C24_InvokedOnlyIfAvailable ==
    \A i \in 1..Len(invoked) :
        LET call == invoked[i].call
            source == IF IsAqicn(call) THEN "aqicn" ELSE call
        IN /\ source \in { "newsapi", "twitter", "serper", "reddit", "youtube", "aqicn" } =>
                  source \in AvailableSources(keys)
           /\ call = "reddit" =>
                  {"reddit_client_id", "reddit_client_secret"} \subseteq keys

(***************************************************************************)
(* Properties of the mode of a run, checked under SpecPipeline.            *)
(***************************************************************************)
\* C25: with no oracle address configured the run is a dry run, with or
\* without the --dry-run flag: submit_scores is never inside its LIVE part,
\* no chain-client call is made, and what a called submit_scores has logged
\* are the dry-run lines of the scores.
C25_NoAddressIsDryRun ==
    ~config.oracle_address =>
        /\ pc \in {"idle", "returned"}
        /\ calls = <<>>
        /\ submit_calls = 1 => log = DryRunLines(run_scores)

====
